---------------------------- MODULE Spec2Model ----------------------------
(***************************************************************************)
(* UnorderedMap<u64, u64> of near-sdk (collections/map/unordered_map.rs):  *)
(* a map kept in the host's key-value store as two parallel Vectors (keys, *)
(* values) and one index entry per key, raw key -> position.               *)
(*                                                                         *)
(* Bytes are the naturals 0..255, byte strings are sequences of bytes, the *)
(* store is a function from the byte strings it holds to byte strings.     *)
(* Option<T> is a sequence of length at most one: <<>> is None, <<x>> is   *)
(* Some(x).  A panic (env::panic, an out-of-range index) is an error code  *)
(* carried in the "err" field of an operation's result; the host discards  *)
(* the writes of an invocation that panicked.                              *)
(***************************************************************************)
EXTENDS Integers, Sequences, FiniteSets, TLC

VARIABLES storage, keys_len, values_len, last, shadow, phase

vars == <<storage, keys_len, values_len, last, shadow, phase>>

-----------------------------------------------------------------------------
(* Bounds of the model.                                                    *)

\* typed keys are the u64 values 0..MaxKey-1 and 256 (two significant bytes)
MaxKey == 2
\* extend is called with at most MaxExtend pairs
MaxExtend == 2

KeySet == (0..(MaxKey - 1)) \cup {256}
\* typed values: one of one significant byte, one of two
ValueSet == {1, 300}
\* the keys of the pairs extend is called with
ExtendKeySet == {0, 256}

-----------------------------------------------------------------------------
(* Program constants.                                                      *)

\* size_of::<u64>()
IndexSize == 8
\* the three sub-namespace tags b'i', b'k', b'v'
TagIndex == 105
TagKeys == 107
TagValues == 118

\* the identifier the map is created with
MapId == <<97>>

OK == "ok"
ERR_INCONSISTENT_STATE == "The collection is an inconsistent state"
ERR_KEY_SERIALIZATION == "Cannot serialize key with Borsh"
ERR_VALUE_DESERIALIZATION == "Cannot deserialize value with Borsh"
ERR_VALUE_SERIALIZATION == "Cannot serialize value with Borsh"
ERR_ELEMENT_DESERIALIZATION == "Cannot deserialize element"
ERR_INDEX_OUT_OF_BOUNDS == "Index out of bounds"
ERR_ABORTED == "invocation aborted"
ERR_SLICE_LENGTH == "copy_from_slice: source slice length does not match"

None == <<>>
Some(x) == <<x>>

-----------------------------------------------------------------------------
(* Codec: Borsh of u64 is the 8-byte little-endian encoding.               *)

RECURSIVE le_bytes(_, _)
le_bytes(n, width) ==
    IF width = 0 THEN <<>>
    ELSE <<n % 256>> \o le_bytes(n \div 256, width - 1)

\* the u64 values the model encodes: keys, values and positions
U64s == KeySet \cup ValueSet \cup (0..(Cardinality(KeySet) + 1))

\* u64::to_le_bytes, tabulated over U64s
U64Le == [n \in U64s |-> le_bytes(n, IndexSize)]

to_le_bytes(n) == U64Le[n]

\* u64::from_le_bytes of a slice of any length (Horner, from the last byte)
RECURSIVE from_le_upto(_, _)
from_le_upto(raw, i) ==
    IF i > Len(raw) THEN 0
    ELSE raw[i] + 256 * from_le_upto(raw, i + 1)

from_le_bytes(raw) == from_le_upto(raw, 1)

serialize_index(index) == to_le_bytes(index)

\* copy_from_slice panics unless the slice has exactly 8 bytes
deserialize_index_ok(raw_index) == Len(raw_index) = IndexSize

deserialize_index(raw_index) == from_le_bytes(raw_index)

\* a key or value of a type whose try_to_vec returns Err
Unencodable == -1

\* try_to_vec: Ok for every u64, Err for the unencodable input
try_to_vec_ok(x) == x # Unencodable

\* the bytes serialize_key returns when try_to_vec is Ok
serialize_key(key) == to_le_bytes(key)

serialize_value(value) == to_le_bytes(value)

\* [ret, err]: u64::try_from_slice fails unless exactly 8 bytes are given
deserialize_value(raw_value) ==
    IF Len(raw_value) = IndexSize
    THEN [ret |-> from_le_bytes(raw_value), err |-> OK]
    ELSE [ret |-> 0, err |-> ERR_VALUE_DESERIALIZATION]

-----------------------------------------------------------------------------
(* The host's key-value store.                                             *)

EmptyStore == [k \in {} |-> <<>>]

storage_read(st, key) == IF key \in DOMAIN st THEN Some(st[key]) ELSE None

storage_write(st, key, value) ==
    [k \in (DOMAIN st) \cup {key} |-> IF k = key THEN value ELSE st[k]]

storage_remove(st, key) == [k \in (DOMAIN st) \ {key} |-> st[k]]

-----------------------------------------------------------------------------
(* Vector: positions 0..len-1 live at prefix ++ le_u64(position); len is a *)
(* field of the Vector.  Each operation takes the store, the vector's      *)
(* prefix and len and gives [storage, len, ret, err].                      *)

index_to_lookup_key(prefix, index) == prefix \o to_le_bytes(index)

VecResult(st, n, ret, err) == [storage |-> st, len |-> n, ret |-> ret, err |-> err]

\* Option<bytes>: None when index >= len, else what the store holds there
vec_get_raw(st, prefix, n, index) ==
    IF index >= n THEN None
    ELSE storage_read(st, index_to_lookup_key(prefix, index))

vec_push_raw(st, prefix, n, raw) ==
    VecResult(storage_write(st, index_to_lookup_key(prefix, n), raw), n + 1, None, OK)

vec_replace_raw(st, prefix, n, index, raw) ==
    LET lookup_key == index_to_lookup_key(prefix, index)
        old == storage_read(st, lookup_key)
    IN  IF index >= n THEN VecResult(st, n, None, ERR_INDEX_OUT_OF_BOUNDS)
        ELSE IF old = None THEN VecResult(st, n, None, ERR_INCONSISTENT_STATE)
        ELSE VecResult(storage_write(st, lookup_key, raw), n, old, OK)

\* swap_remove_raw that copies the last element down and leaves its slot
vec_swap_remove_raw_leaves_last(st, prefix, n, index) ==
    LET lookup_key == index_to_lookup_key(prefix, index)
        last_key == index_to_lookup_key(prefix, n - 1)
        old == storage_read(st, lookup_key)
        raw_last == storage_read(st, last_key)
    IN  IF index >= n THEN VecResult(st, n, None, ERR_INDEX_OUT_OF_BOUNDS)
        ELSE IF old = None \/ raw_last = None
             THEN VecResult(st, n, None, ERR_INCONSISTENT_STATE)
        ELSE VecResult(storage_write(st, lookup_key, raw_last[1]), n - 1, old, OK)

vec_swap_remove_raw(st, prefix, n, index) ==
    LET lookup_key == index_to_lookup_key(prefix, index)
        last_key == index_to_lookup_key(prefix, n - 1)
        old == storage_read(st, lookup_key)
        raw_last == storage_read(st, last_key)
    IN  IF index >= n THEN VecResult(st, n, None, ERR_INDEX_OUT_OF_BOUNDS)
        ELSE IF old = None \/ raw_last = None
             THEN VecResult(st, n, None, ERR_INCONSISTENT_STATE)
        ELSE IF index + 1 = n
             THEN VecResult(storage_remove(st, last_key), n - 1, old, OK)
        ELSE VecResult(storage_write(storage_remove(st, last_key), lookup_key, raw_last[1]),
                       n - 1, old, OK)

RECURSIVE vec_clear_slots(_, _, _)
vec_clear_slots(st, prefix, n) ==
    IF n = 0 THEN st
    ELSE vec_clear_slots(storage_remove(st, index_to_lookup_key(prefix, n - 1)), prefix, n - 1)

vec_clear(st, prefix, n) == VecResult(vec_clear_slots(st, prefix, n), 0, None, OK)

\* [ret, err]: the raw elements at positions 0..len-1 in increasing order
vec_iter_raw(st, prefix, n) ==
    IF \E i \in 0..(n - 1) : vec_get_raw(st, prefix, n, i) = None
    THEN [ret |-> <<>>, err |-> ERR_INCONSISTENT_STATE]
    ELSE [ret |-> [p \in 1..n |-> vec_get_raw(st, prefix, n, p - 1)[1]], err |-> OK]

-----------------------------------------------------------------------------
(* UnorderedMap: the struct's fields.  The three prefixes are fixed by new, *)
(* the two Vector lengths are the variables keys_len and values_len.       *)

new(id) ==
    [key_index_prefix |-> id \o <<TagIndex>>,
     keys_prefix |-> id \o <<TagKeys>>,
     values_prefix |-> id \o <<TagValues>>]

Map == new(MapId)

\* a map state: what the operations read and write
MapState(st, kl, vl) == [storage |-> st, keys_len |-> kl, values_len |-> vl]

\* an operation's result: the map state after it, its return value, its panic
Result(st, kl, vl, ret, err) ==
    [storage |-> st, keys_len |-> kl, values_len |-> vl, ret |-> ret, err |-> err]

Panic(s, err) == Result(s.storage, s.keys_len, s.values_len, None, err)

\* len without the comparison of the two lengths
len_unchecked(s) == [ret |-> s.keys_len, err |-> OK]

\* [ret, err]
len(s) ==
    LET key_len == s.keys_len
        values_len_ == s.values_len
    IN  IF key_len # values_len_
        THEN [ret |-> 0, err |-> ERR_INCONSISTENT_STATE]
        ELSE [ret |-> key_len, err |-> OK]

raw_key_to_index_lookup(raw_key) == Map.key_index_prefix \o raw_key

\* [ret, err]: ret is Option<u64>
get_index_raw(s, key_raw) ==
    LET rd == storage_read(s.storage, raw_key_to_index_lookup(key_raw))
    IN  IF rd = None THEN [ret |-> None, err |-> OK]
        ELSE IF ~deserialize_index_ok(rd[1]) THEN [ret |-> None, err |-> ERR_SLICE_LENGTH]
        ELSE [ret |-> Some(deserialize_index(rd[1])), err |-> OK]

\* [ret, err]: ret is Option<bytes>
get_raw(s, key_raw) ==
    LET ix == get_index_raw(s, key_raw)
    IN  IF ix.err # OK \/ ix.ret = None THEN [ret |-> None, err |-> ix.err]
        ELSE LET x == vec_get_raw(s.storage, Map.values_prefix, s.values_len, ix.ret[1])
             IN  IF x = None THEN [ret |-> None, err |-> ERR_INCONSISTENT_STATE]
                 ELSE [ret |-> x, err |-> OK]

\* insert_existing with the write of the new value left out
insert_existing_no_write(s, index_raw, value_raw) ==
    LET x == vec_get_raw(s.storage, Map.values_prefix, s.values_len,
                         deserialize_index(index_raw))
    IN  Result(s.storage, s.keys_len, s.values_len, x, OK)

\* insert_raw when the index entry exists: only the value slot is overwritten
insert_existing(s, index_raw, value_raw) ==
    IF ~deserialize_index_ok(index_raw) THEN Panic(s, ERR_SLICE_LENGTH)
    ELSE LET index == deserialize_index(index_raw)
             r == vec_replace_raw(s.storage, Map.values_prefix, s.values_len, index, value_raw)
         IN  IF r.err # OK THEN Panic(s, r.err)
             ELSE Result(r.storage, s.keys_len, r.len, r.ret, OK)

\* insert_absent with the push to the values vector left out
insert_absent_no_value_push(s, index_lookup, key_raw, value_raw) ==
    LET st1 == storage_write(s.storage, index_lookup, serialize_index(s.keys_len))
        k == vec_push_raw(st1, Map.keys_prefix, s.keys_len, key_raw)
    IN  Result(k.storage, k.len, s.values_len, None, OK)

\* insert_absent that stores the position after the one it appends at
insert_absent_index_off_by_one(s, index_lookup, key_raw, value_raw) ==
    LET st1 == storage_write(s.storage, index_lookup, serialize_index(s.keys_len + 1))
        k == vec_push_raw(st1, Map.keys_prefix, s.keys_len, key_raw)
        v == vec_push_raw(k.storage, Map.values_prefix, s.values_len, value_raw)
    IN  Result(v.storage, k.len, v.len, None, OK)

\* insert_raw when there is no index entry: index entry, then the two pushes
insert_absent(s, index_lookup, key_raw, value_raw) ==
    LET l == len(s)
    IN  IF l.err # OK THEN Panic(s, l.err)
        ELSE LET next_index == l.ret
                 next_index_raw == serialize_index(next_index)
                 st1 == storage_write(s.storage, index_lookup, next_index_raw)
                 k == vec_push_raw(st1, Map.keys_prefix, s.keys_len, key_raw)
                 v == vec_push_raw(k.storage, Map.values_prefix, s.values_len, value_raw)
             IN  Result(v.storage, k.len, v.len, None, OK)

\* insert_raw that never looks the key up and always appends
insert_raw_always_absent(s, key_raw, value_raw) ==
    LET r == insert_absent(s, raw_key_to_index_lookup(key_raw), key_raw, value_raw)
    IN  Result(r.storage, r.keys_len, r.values_len,
               get_raw(s, key_raw).ret, r.err)

insert_raw(s, key_raw, value_raw) ==
    LET index_lookup == raw_key_to_index_lookup(key_raw)
        rd == storage_read(s.storage, index_lookup)
    IN  IF rd # None THEN insert_existing(s, rd[1], value_raw)
        ELSE insert_absent(s, index_lookup, key_raw, value_raw)

\* swap_index_update with the rewrite of the moved key's entry left out
swap_index_update_no_rewrite(st, index_lookup, key_raw, last_key_raw, index_raw) ==
    storage_remove(st, index_lookup)

\* swap_index_update without the comparison of the last key with the removed one
swap_index_update_always_rewrite(st, index_lookup, key_raw, last_key_raw, index_raw) ==
    storage_write(storage_remove(st, index_lookup),
                  raw_key_to_index_lookup(last_key_raw), index_raw)

\* remove_raw, more than one element: the removed key's index entry is deleted
\* and the last key's entry is rewritten to the removed position.  The store
\* after these writes.
swap_index_update(st, index_lookup, key_raw, last_key_raw, index_raw) ==
    LET st1 == storage_remove(st, index_lookup)
    IN  IF last_key_raw # key_raw
        THEN storage_write(st1, raw_key_to_index_lookup(last_key_raw), index_raw)
        ELSE st1

\* remove_index_entry that leaves the index entry of a map's only element
remove_index_entry_single_kept(s, index_lookup, key_raw, index_raw) ==
    IF len(s).ret = 1 THEN [storage |-> s.storage, err |-> OK]
    ELSE LET x == vec_get_raw(s.storage, Map.keys_prefix, s.keys_len, s.keys_len - 1)
         IN  [storage |-> swap_index_update(s.storage, index_lookup, key_raw, x[1], index_raw),
              err |-> OK]

\* remove_raw up to the vector swap-removes: [storage, err]
remove_index_entry(s, index_lookup, key_raw, index_raw) ==
    LET l == len(s)
    IN  IF l.err # OK THEN [storage |-> s.storage, err |-> l.err]
        ELSE IF l.ret = 1
             THEN [storage |-> storage_remove(s.storage, index_lookup), err |-> OK]
        ELSE IF l.ret = 0
             \* self.len() - 1 underflows: a panic, or u64::MAX and then no such slot
             THEN [storage |-> s.storage, err |-> ERR_INCONSISTENT_STATE]
        ELSE LET x == vec_get_raw(s.storage, Map.keys_prefix, s.keys_len, l.ret - 1)
             IN  IF x = None THEN [storage |-> s.storage, err |-> ERR_INCONSISTENT_STATE]
                 ELSE [storage |-> swap_index_update(s.storage, index_lookup, key_raw,
                                                     x[1], index_raw),
                       err |-> OK]

\* remove_swap that pops the values vector instead of swap-removing at index
remove_swap_values_pop(s, st1, index_raw) ==
    LET index == deserialize_index(index_raw)
        k == vec_swap_remove_raw(st1, Map.keys_prefix, s.keys_len, index)
        x == vec_get_raw(k.storage, Map.values_prefix, s.values_len, index)
        v == vec_swap_remove_raw(k.storage, Map.values_prefix, s.values_len,
                                 s.values_len - 1)
    IN  Result(v.storage, k.len, v.len, x, OK)

\* remove_raw from the index decoding on: the two swap-removes
remove_swap(s, st1, index_raw) ==
    IF ~deserialize_index_ok(index_raw) THEN Panic(s, ERR_SLICE_LENGTH)
    ELSE LET index == deserialize_index(index_raw)
             k == vec_swap_remove_raw(st1, Map.keys_prefix, s.keys_len, index)
             v == vec_swap_remove_raw(k.storage, Map.values_prefix, s.values_len, index)
         IN  IF k.err # OK THEN Panic(s, k.err)
             ELSE IF v.err # OK THEN Panic(s, v.err)
             ELSE Result(v.storage, k.len, v.len, v.ret, OK)

\* remove_raw that rewrites the moved key's entry but keeps the removed key's
remove_raw_keeps_entry(s, key_raw) ==
    LET index_lookup == raw_key_to_index_lookup(key_raw)
        rd == storage_read(s.storage, index_lookup)
    IN  IF rd = None THEN Result(s.storage, s.keys_len, s.values_len, None, OK)
        ELSE LET x == vec_get_raw(s.storage, Map.keys_prefix, s.keys_len, s.keys_len - 1)
                 st1 == IF x[1] # key_raw
                        THEN storage_write(s.storage, raw_key_to_index_lookup(x[1]), rd[1])
                        ELSE s.storage
             IN  remove_swap(s, st1, rd[1])

remove_raw(s, key_raw) ==
    LET index_lookup == raw_key_to_index_lookup(key_raw)
        rd == storage_read(s.storage, index_lookup)
    IN  IF rd = None THEN Result(s.storage, s.keys_len, s.values_len, None, OK)
        ELSE LET e == remove_index_entry(s, index_lookup, key_raw, rd[1])
             IN  IF e.err # OK THEN Panic(s, e.err)
                 ELSE remove_swap(s, e.storage, rd[1])

-----------------------------------------------------------------------------
(* The typed layer, K = V = u64.                                           *)

\* Option<bytes> to Option<V>: [ret, err]
map_deserialize_value(opt) ==
    IF opt = None THEN [ret |-> None, err |-> OK]
    ELSE LET d == deserialize_value(opt[1])
         IN  IF d.err # OK THEN [ret |-> None, err |-> d.err]
             ELSE [ret |-> Some(d.ret), err |-> OK]

\* an operation's raw result with its return value decoded
Typed(s, r) ==
    IF r.err # OK THEN Panic(s, r.err)
    ELSE LET d == map_deserialize_value(r.ret)
         IN  IF d.err # OK THEN Panic(s, d.err)
             ELSE Result(r.storage, r.keys_len, r.values_len, d.ret, OK)

\* [ret, err]: ret is Option<V>
get(s, key) ==
    IF ~try_to_vec_ok(key) THEN [ret |-> None, err |-> ERR_KEY_SERIALIZATION]
    ELSE LET r == get_raw(s, serialize_key(key))
         IN  IF r.err # OK THEN [ret |-> None, err |-> r.err]
             ELSE map_deserialize_value(r.ret)

remove(s, key) ==
    IF ~try_to_vec_ok(key) THEN Panic(s, ERR_KEY_SERIALIZATION)
    ELSE Typed(s, remove_raw(s, serialize_key(key)))

\* insert that serializes the value before the key
insert_value_serialized_first(s, key, value) ==
    IF ~try_to_vec_ok(value) THEN Panic(s, ERR_VALUE_SERIALIZATION)
    ELSE IF ~try_to_vec_ok(key) THEN Panic(s, ERR_KEY_SERIALIZATION)
    ELSE Typed(s, insert_raw(s, serialize_key(key), serialize_value(value)))

insert(s, key, value) ==
    IF ~try_to_vec_ok(key) THEN Panic(s, ERR_KEY_SERIALIZATION)
    ELSE IF ~try_to_vec_ok(value) THEN Panic(s, ERR_VALUE_SERIALIZATION)
    ELSE Typed(s, insert_raw(s, serialize_key(key), serialize_value(value)))

RECURSIVE clear_index(_, _)
\* the store with the index entry of every raw key of the sequence removed
clear_index(st, raw_keys) ==
    IF raw_keys = <<>> THEN st
    ELSE clear_index(storage_remove(st, raw_key_to_index_lookup(Head(raw_keys))),
                     Tail(raw_keys))

\* clear that empties the two vectors and leaves the index entries
clear_keeps_index(s) ==
    LET k == vec_clear(s.storage, Map.keys_prefix, s.keys_len)
        v == vec_clear(k.storage, Map.values_prefix, s.values_len)
    IN  Result(v.storage, k.len, v.len, None, OK)

\* clear that empties the two vectors before it walks the keys
clear_vectors_first(s) ==
    LET k == vec_clear(s.storage, Map.keys_prefix, s.keys_len)
        v == vec_clear(k.storage, Map.values_prefix, s.values_len)
        it == vec_iter_raw(v.storage, Map.keys_prefix, k.len)
    IN  Result(clear_index(v.storage, it.ret), k.len, v.len, None, OK)

clear(s) ==
    LET it == vec_iter_raw(s.storage, Map.keys_prefix, s.keys_len)
    IN  IF it.err # OK THEN Panic(s, it.err)
        ELSE LET st1 == clear_index(s.storage, it.ret)
                 k == vec_clear(st1, Map.keys_prefix, s.keys_len)
                 v == vec_clear(k.storage, Map.values_prefix, s.values_len)
             IN  Result(v.storage, k.len, v.len, None, OK)

\* Vector<u64>::iter: [ret, err], the decoded elements in position order
vec_iter(st, prefix, n) ==
    LET it == vec_iter_raw(st, prefix, n)
    IN  IF it.err # OK THEN it
        ELSE IF \E p \in 1..n : Len(it.ret[p]) # IndexSize
             THEN [ret |-> <<>>, err |-> ERR_ELEMENT_DESERIALIZATION]
        ELSE [ret |-> [p \in 1..n |-> from_le_bytes(it.ret[p])], err |-> OK]

keys(s) == vec_iter(s.storage, Map.keys_prefix, s.keys_len)

values(s) == vec_iter(s.storage, Map.values_prefix, s.values_len)

Min(a, b) == IF a <= b THEN a ELSE b

\* iter that pairs the keys with the values in reverse order
iter_values_reversed(s) ==
    LET ks == keys(s)
        vs == values(s)
        n == Min(Len(ks.ret), Len(vs.ret))
    IN  [ret |-> [p \in 1..n |-> <<ks.ret[p], vs.ret[Len(vs.ret) + 1 - p]>>], err |-> OK]

\* keys.iter().zip(values.iter()): as long as the shorter of the two
iter(s) ==
    LET ks == keys(s)
        vs == values(s)
    IN  IF ks.err # OK THEN ks
        ELSE IF vs.err # OK THEN vs
        ELSE [ret |-> [p \in 1..Min(Len(ks.ret), Len(vs.ret)) |-> <<ks.ret[p], vs.ret[p]>>],
              err |-> OK]

to_vec(s) == iter(s)

RECURSIVE extend_from_back(_, _)
\* extend that walks the pairs from the last to the first
extend_from_back(s, pairs) ==
    IF pairs = <<>> THEN Result(s.storage, s.keys_len, s.values_len, None, OK)
    ELSE LET r == insert(s, pairs[Len(pairs)][1], pairs[Len(pairs)][2])
         IN  extend_from_back(MapState(r.storage, r.keys_len, r.values_len),
                              SubSeq(pairs, 1, Len(pairs) - 1))

RECURSIVE extend(_, _)
extend(s, pairs) ==
    IF pairs = <<>> THEN Result(s.storage, s.keys_len, s.values_len, None, OK)
    ELSE LET r == insert(s, Head(pairs)[1], Head(pairs)[2])
         IN  IF r.err # OK THEN Panic(s, r.err)
             ELSE LET rest == extend(MapState(r.storage, r.keys_len, r.values_len), Tail(pairs))
                  IN  IF rest.err # OK THEN Panic(s, rest.err) ELSE rest

\* The calls insert_raw and remove_raw make on the store and on the two
\* vectors, in the order the code makes them, up to the call that panics.
StoreStep(call, key) == [call |-> call, key |-> key]

WriteStep(key, value) == [call |-> "storage_write", key |-> key, value |-> value]

VecStep(call, index) == [call |-> call, index |-> index]

VecValueStep(call, index, value) == [call |-> call, index |-> index, value |-> value]

insert_raw_steps(s, key_raw, value_raw) ==
    LET index_lookup == raw_key_to_index_lookup(key_raw)
        rd == storage_read(s.storage, index_lookup)
        first == << StoreStep("storage_read", index_lookup) >>
    IN  IF rd # None
        THEN IF ~deserialize_index_ok(rd[1]) THEN first
             ELSE first \o << VecValueStep("values.replace_raw", deserialize_index(rd[1]),
                                           value_raw) >>
        ELSE IF len(s).err # OK THEN first
        ELSE first \o << WriteStep(index_lookup, serialize_index(len(s).ret)),
                         VecValueStep("keys.push_raw", s.keys_len, key_raw),
                         VecValueStep("values.push_raw", s.values_len, value_raw) >>

\* remove_raw_steps with the two swap-removes made before the index is updated
remove_raw_steps_swaps_first(s, key_raw) ==
    LET index_lookup == raw_key_to_index_lookup(key_raw)
        rd == storage_read(s.storage, index_lookup)
        first == << StoreStep("storage_read", index_lookup) >>
    IN  IF rd = None THEN first
        ELSE LET index == deserialize_index(rd[1])
                 x == vec_get_raw(s.storage, Map.keys_prefix, s.keys_len, s.keys_len - 1)
             IN  first
                 \o (IF s.keys_len = 1 THEN <<>>
                     ELSE << VecStep("keys.get_raw", s.keys_len - 1) >>)
                 \o << VecStep("keys.swap_remove_raw", index),
                       VecStep("values.swap_remove_raw", index),
                       StoreStep("storage_remove", index_lookup) >>
                 \o (IF s.keys_len > 1 /\ x[1] # key_raw
                     THEN << WriteStep(raw_key_to_index_lookup(x[1]), rd[1]) >>
                     ELSE <<>>)

remove_raw_steps(s, key_raw) ==
    LET index_lookup == raw_key_to_index_lookup(key_raw)
        rd == storage_read(s.storage, index_lookup)
        l == len(s)
        first == << StoreStep("storage_read", index_lookup) >>
        swaps == IF ~deserialize_index_ok(rd[1]) THEN <<>>
                 ELSE << VecStep("keys.swap_remove_raw", deserialize_index(rd[1])),
                         VecStep("values.swap_remove_raw", deserialize_index(rd[1])) >>
    IN  IF rd = None \/ l.err # OK \/ l.ret = 0 THEN first
        ELSE IF l.ret = 1
             THEN first \o << StoreStep("storage_remove", index_lookup) >> \o swaps
        ELSE LET x == vec_get_raw(s.storage, Map.keys_prefix, s.keys_len, l.ret - 1)
                 read_last == << VecStep("keys.get_raw", l.ret - 1) >>
             IN  IF x = None THEN first \o read_last
                 ELSE first \o read_last
                      \o << StoreStep("storage_remove", index_lookup) >>
                      \o (IF x[1] # key_raw
                          THEN << WriteStep(raw_key_to_index_lookup(x[1]), rd[1]) >>
                          ELSE <<>>)
                      \o swaps

\* the map after one step; a step that panics leaves it as it is
ApplyStep(s, step) ==
    LET vec(r) == IF r.err # OK THEN s
                  ELSE IF step.call \in {"keys.push_raw", "keys.swap_remove_raw"}
                       THEN MapState(r.storage, r.len, s.values_len)
                  ELSE MapState(r.storage, s.keys_len, r.len)
    IN  CASE step.call = "storage_write" ->
               MapState(storage_write(s.storage, step.key, step.value),
                        s.keys_len, s.values_len)
          [] step.call = "storage_remove" ->
               MapState(storage_remove(s.storage, step.key), s.keys_len, s.values_len)
          [] step.call = "keys.push_raw" ->
               vec(vec_push_raw(s.storage, Map.keys_prefix, s.keys_len, step.value))
          [] step.call = "values.push_raw" ->
               vec(vec_push_raw(s.storage, Map.values_prefix, s.values_len, step.value))
          [] step.call = "values.replace_raw" ->
               vec(vec_replace_raw(s.storage, Map.values_prefix, s.values_len,
                                   step.index, step.value))
          [] step.call = "keys.swap_remove_raw" ->
               vec(vec_swap_remove_raw(s.storage, Map.keys_prefix, s.keys_len, step.index))
          [] step.call = "values.swap_remove_raw" ->
               vec(vec_swap_remove_raw(s.storage, Map.values_prefix, s.values_len,
                                       step.index))
          [] OTHER -> s

RECURSIVE ApplySteps(_, _)
ApplySteps(s, steps) ==
    IF steps = <<>> THEN s ELSE ApplySteps(ApplyStep(s, Head(steps)), Tail(steps))

-----------------------------------------------------------------------------
(* The state machine: one map, created empty, and one action per public    *)
(* operation.  A call runs to completion and leaves its outcome in last    *)
(* (operation, arguments, return value, panic, and the map state it        *)
(* started from); Return hands the outcome to the caller, after which the  *)
(* next call can be made.  shadow is a reference finite map driven by the  *)
(* same calls.  last.steps holds the calls insert_raw or remove_raw made   *)
(* on the store and the vectors.  phase tells whether the store has been   *)
(* modified from outside the map ("tampered") and whether a call has run   *)
(* on it since ("observed"); it stays "clean" where nothing but the map    *)
(* writes to the store.                                                    *)

Now == MapState(storage, keys_len, values_len)

EmptyMap == MapState(EmptyStore, 0, 0)

\* the steps of the call op(args) made on the map as it is now
StepsOf(op, args) ==
    IF \E i \in 1..Len(args) : op \in {"insert", "remove"} /\ ~try_to_vec_ok(args[i])
    THEN <<>>
    ELSE IF op = "insert"
    THEN insert_raw_steps(Now, serialize_key(args[1]), serialize_value(args[2]))
    ELSE IF op = "remove" THEN remove_raw_steps(Now, serialize_key(args[1]))
    ELSE <<>>

Call(op, args, ret, err) ==
    [op |-> op, args |-> args, ret |-> ret, err |-> err, pre |-> Now,
     steps |-> StepsOf(op, args)]

Idle ==
    [op |-> "idle", args |-> <<>>, ret |-> None, err |-> OK, pre |-> EmptyMap,
     steps |-> <<>>]

EmptyShadow == [k \in {} |-> 0]

shadow_insert(sh, key, value) ==
    [k \in (DOMAIN sh) \cup {key} |-> IF k = key THEN value ELSE sh[k]]

shadow_remove(sh, key) == [k \in (DOMAIN sh) \ {key} |-> sh[k]]

RECURSIVE shadow_extend(_, _)
shadow_extend(sh, pairs) ==
    IF pairs = <<>> THEN sh
    ELSE shadow_extend(shadow_insert(sh, Head(pairs)[1], Head(pairs)[2]), Tail(pairs))

PairSeqs == UNION {[1..n -> ExtendKeySet \X ValueSet] : n \in 0..MaxExtend}

\* a host that keeps the writes of an invocation whether or not it panicked
Commit_keeps_writes(r, sh) ==
    /\ storage' = r.storage
    /\ keys_len' = r.keys_len
    /\ values_len' = r.values_len
    /\ shadow' = sh

\* a panicking invocation leaves the store and the map as they were
Commit(r, sh) ==
    IF r.err = OK
    THEN /\ storage' = r.storage
         /\ keys_len' = r.keys_len
         /\ values_len' = r.values_len
         /\ shadow' = sh
    ELSE UNCHANGED <<storage, keys_len, values_len, shadow>>

\* a call can be made: the previous one has returned, and a store that was
\* modified from outside has not been operated on yet
Ready == last = Idle /\ phase # "observed"

\* a call on a store modified from outside is the one call made on it
Observe == phase' = IF phase = "tampered" THEN "observed" ELSE phase

Init ==
    /\ storage = EmptyStore
    /\ keys_len = 0
    /\ values_len = 0
    /\ last = Idle
    /\ shadow = EmptyShadow
    /\ phase = "clean"

MapLen ==
    /\ Ready
    /\ Observe
    /\ LET r == len(Now)
       IN  /\ last' = Call("len", <<>>, Some(r.ret), r.err)
           /\ UNCHANGED <<storage, keys_len, values_len, shadow>>

Get ==
    /\ Ready
    /\ Observe
    /\ \E key \in KeySet :
        LET r == get(Now, key)
        IN  /\ last' = Call("get", <<key>>, r.ret, r.err)
            /\ UNCHANGED <<storage, keys_len, values_len, shadow>>

Insert ==
    /\ Ready
    /\ Observe
    /\ \E key \in KeySet, value \in ValueSet :
        LET r == insert(Now, key, value)
        IN  /\ last' = Call("insert", <<key, value>>, r.ret, r.err)
            /\ Commit(r, shadow_insert(shadow, key, value))

Remove ==
    /\ Ready
    /\ Observe
    /\ \E key \in KeySet :
        LET r == remove(Now, key)
        IN  /\ last' = Call("remove", <<key>>, r.ret, r.err)
            /\ Commit(r, shadow_remove(shadow, key))

Clear ==
    /\ Ready
    /\ Observe
    /\ LET r == clear(Now)
       IN  /\ last' = Call("clear", <<>>, r.ret, r.err)
           /\ Commit(r, EmptyShadow)

ToVec ==
    /\ Ready
    /\ Observe
    /\ LET r == to_vec(Now)
       IN  /\ last' = Call("to_vec", <<>>, r.ret, r.err)
           /\ UNCHANGED <<storage, keys_len, values_len, shadow>>

Extend ==
    /\ Ready
    /\ Observe
    /\ \E pairs \in PairSeqs :
        LET r == extend(Now, pairs)
        IN  /\ last' = Call("extend", pairs, r.ret, r.err)
            /\ Commit(r, shadow_extend(shadow, pairs))

Return ==
    /\ last # Idle
    /\ last' = Idle
    /\ UNCHANGED <<storage, keys_len, values_len, shadow, phase>>

Next == MapLen \/ Get \/ Insert \/ Remove \/ Clear \/ ToVec \/ Extend \/ Return

Spec == Init /\ [][Next]_vars

\* The store and the vectors' lengths modified from outside the map, once,
\* between two calls: a values vector one shorter or one longer than the keys
\* vector, the value slot of a stored key deleted, or an index entry written
\* for a key that is not stored, with a position past the last slot.
TamperLength ==
    /\ last = Idle /\ phase = "clean"
    /\ \E d \in {-1, 1} :
        /\ values_len + d >= 0
        /\ values_len' = values_len + d
    /\ phase' = "tampered"
    /\ UNCHANGED <<storage, keys_len, last, shadow>>

TamperDangling ==
    /\ last = Idle /\ phase = "clean"
    /\ \/ \E p \in 0..(values_len - 1) :
            storage' = storage_remove(storage, index_to_lookup_key(Map.values_prefix, p))
       \/ \E key \in KeySet :
            /\ get_index_raw(Now, serialize_key(key)).ret = None
            /\ storage' = storage_write(storage,
                                        raw_key_to_index_lookup(serialize_key(key)),
                                        serialize_index(values_len))
    /\ phase' = "tampered"
    /\ UNCHANGED <<keys_len, values_len, last, shadow>>

NextTamper ==
    MapLen \/ Get \/ Insert \/ Remove \/ Return \/ TamperLength \/ TamperDangling

SpecTamper == Init /\ [][NextTamper]_vars

\* An invocation that is aborted inside insert or remove, after the first n
\* of the operation's steps: the host is handed the map as those steps left
\* it, and the fault.
Aborted(op, args, n) ==
    LET done == SubSeq(StepsOf(op, args), 1, n)
        dirty == ApplySteps(Now, done)
    IN  /\ last' = [Call(op, args, None, ERR_ABORTED) EXCEPT !.steps = done]
        /\ Commit(Result(dirty.storage, dirty.keys_len, dirty.values_len, None, ERR_ABORTED),
                  shadow)

AbortInsert ==
    /\ Ready
    /\ Observe
    /\ \E key \in KeySet, value \in ValueSet :
        \E n \in 0..Len(StepsOf("insert", <<key, value>>)) :
            Aborted("insert", <<key, value>>, n)

AbortRemove ==
    /\ Ready
    /\ Observe
    /\ \E key \in KeySet :
        \E n \in 0..Len(StepsOf("remove", <<key>>)) : Aborted("remove", <<key>>, n)

NextAbort == Insert \/ Remove \/ Return \/ AbortInsert \/ AbortRemove

SpecAbort == Init /\ [][NextAbort]_vars

\* Other maps in the same store, created with other identifiers, each holding
\* the key 0 with the value 1 at position 0; and the raw operations of this
\* map, called with raw keys of any length.
OtherIds == {<<98>>, MapId \o <<TagIndex>>}

OtherEntries(id) ==
    LET m == new(id)
        index_lookup == m.key_index_prefix \o serialize_key(0)
        key_slot == index_to_lookup_key(m.keys_prefix, 0)
        value_slot == index_to_lookup_key(m.values_prefix, 0)
    IN  [sk \in {index_lookup, key_slot, value_slot} |->
            IF sk = index_lookup THEN serialize_index(0)
            ELSE IF sk = key_slot THEN serialize_key(0)
            ELSE serialize_value(1)]

OtherStore ==
    LET whose(sk) == CHOOSE id \in OtherIds : sk \in DOMAIN OtherEntries(id)
    IN  [sk \in UNION {DOMAIN OtherEntries(id) : id \in OtherIds} |->
            OtherEntries(whose(sk))[sk]]

RawKeySet == {serialize_key(0), serialize_key(1), <<TagKeys>> \o to_le_bytes(0)}

RawValueSet == {serialize_value(value) : value \in ValueSet}

InitIds ==
    /\ storage = OtherStore
    /\ keys_len = 0
    /\ values_len = 0
    /\ last = Idle
    /\ shadow = EmptyShadow
    /\ phase = "clean"

GetRaw ==
    /\ Ready
    /\ Observe
    /\ \E key_raw \in RawKeySet :
        LET r == get_raw(Now, key_raw)
        IN  /\ last' = Call("get_raw", <<key_raw>>, r.ret, r.err)
            /\ UNCHANGED <<storage, keys_len, values_len, shadow>>

InsertRaw ==
    /\ Ready
    /\ Observe
    /\ \E key_raw \in RawKeySet, value_raw \in RawValueSet :
        LET r == insert_raw(Now, key_raw, value_raw)
        IN  /\ last' = Call("insert_raw", <<key_raw, value_raw>>, r.ret, r.err)
            /\ Commit(r, shadow)

RemoveRaw ==
    /\ Ready
    /\ Observe
    /\ \E key_raw \in RawKeySet :
        LET r == remove_raw(Now, key_raw)
        IN  /\ last' = Call("remove_raw", <<key_raw>>, r.ret, r.err)
            /\ Commit(r, shadow)

NextIds == GetRaw \/ InsertRaw \/ RemoveRaw \/ Return

SpecIds == InitIds /\ [][NextIds]_vars

\* Calls with a key or a value whose try_to_vec fails.
GetBad ==
    /\ Ready
    /\ Observe
    /\ LET r == get(Now, Unencodable)
       IN  /\ last' = Call("get", <<Unencodable>>, r.ret, r.err)
           /\ UNCHANGED <<storage, keys_len, values_len, shadow>>

InsertBad ==
    /\ Ready
    /\ Observe
    /\ \E key \in KeySet \cup {Unencodable}, value \in ValueSet \cup {Unencodable} :
        /\ ~try_to_vec_ok(key) \/ ~try_to_vec_ok(value)
        /\ LET r == insert(Now, key, value)
           IN  /\ last' = Call("insert", <<key, value>>, r.ret, r.err)
               /\ Commit(r, shadow)

RemoveBad ==
    /\ Ready
    /\ Observe
    /\ LET r == remove(Now, Unencodable)
       IN  /\ last' = Call("remove", <<Unencodable>>, r.ret, r.err)
           /\ Commit(r, shadow)

NextBadInput == Next \/ GetBad \/ InsertBad \/ RemoveBad

SpecBadInput == Init /\ [][NextBadInput]_vars

-----------------------------------------------------------------------------
(* What the claims speak of.                                               *)

\* the call whose outcome last holds
Pre == last.pre

Mutators == {"insert", "remove", "clear", "extend"}

\* a mutating call has just completed
Completed == last.op \in Mutators /\ last.err = OK

Present(s, key) == get(s, key).ret # None

IndexEntries(st) ==
    {sk \in DOMAIN st : SubSeq(sk, 1, Len(Map.key_index_prefix)) = Map.key_index_prefix}

\* the raw key held at position p of the keys vector (Option)
KeyAt(s, p) == vec_get_raw(s.storage, Map.keys_prefix, s.keys_len, p)

\* the position the keys vector holds the typed key at
PositionOf(s, key) ==
    CHOOSE p \in 0..(s.keys_len - 1) : KeyAt(s, p) = Some(serialize_key(key))

-----------------------------------------------------------------------------
\* C1: after every completed insert, remove, clear or extend, the keys vector
\* and the values vector have the same length.
C1_LengthsAgree ==
    Completed => keys_len = values_len

\* a remove of a present key from a map of three has completed
C1_Witness ==
    /\ last.op = "remove" /\ last.err = OK /\ last.ret # None
    /\ Pre.keys_len = 3
    /\ keys_len = 2 /\ values_len = 2

\* C2: after every completed insert, remove, clear or extend, the index entry
\* stored under the raw key at position p holds exactly p, for every p < len,
\* and no two positions of the keys vector hold the same raw key.
C2_IndexBijection ==
    Completed =>
        /\ \A p \in 0..(keys_len - 1) :
            /\ KeyAt(Now, p) # None
            /\ storage_read(storage, raw_key_to_index_lookup(KeyAt(Now, p)[1]))
                 = Some(serialize_index(p))
            /\ get_index_raw(Now, KeyAt(Now, p)[1]) = [ret |-> Some(p), err |-> OK]
        /\ \A p, q \in 0..(keys_len - 1) : KeyAt(Now, p) = KeyAt(Now, q) => p = q

\* a remove has moved the last of three keys into position 0
C2_Witness ==
    /\ last.op = "remove" /\ last.err = OK
    /\ Pre.keys_len = 3 /\ keys_len = 2
    /\ KeyAt(Pre, 0) = Some(serialize_key(last.args[1]))
    /\ KeyAt(Now, 0) = KeyAt(Pre, 2)
    /\ get_index_raw(Now, KeyAt(Pre, 2)[1]).ret = Some(0)

\* C3: remove of a present key returns the value stored for it; afterwards get
\* of that key is None, the length is one less, and every other present key
\* is still retrievable with its value unchanged.
C3_RemovePresent ==
    (last.op = "remove" /\ Present(Pre, last.args[1])) =>
        /\ last.err = OK
        /\ last.ret = get(Pre, last.args[1]).ret
        /\ get(Now, last.args[1]) = [ret |-> None, err |-> OK]
        /\ len(Now) = [ret |-> len(Pre).ret - 1, err |-> OK]
        /\ \A k \in KeySet \ {last.args[1]} :
            Present(Pre, k) => get(Now, k) = get(Pre, k)

\* the key at position 0 of a map of three was removed, two keys remain
C3_Witness ==
    /\ last.op = "remove" /\ Present(Pre, last.args[1])
    /\ Pre.keys_len = 3
    /\ PositionOf(Pre, last.args[1]) = 0
    /\ last.ret = Some(300)
    /\ Cardinality({k \in KeySet : Present(Now, k)}) = 2

\* C4: immediately after insert(key, value) completes, get(key) is Some(value).
C4_InsertThenGet ==
    last.op = "insert" =>
        /\ last.err = OK
        /\ get(Now, last.args[1]) = [ret |-> Some(last.args[2]), err |-> OK]

\* key 256 was inserted with value 300 into a map that held two other keys
C4_Witness ==
    /\ last.op = "insert" /\ last.args = <<256, 300>>
    /\ last.ret = None
    /\ Pre.keys_len = 2
    /\ get(Now, 256).ret = Some(300)

\* C5: insert of a key already present returns Some(previous value), makes
\* get(key) the new value, leaves the length unchanged, and changes nothing in
\* the store but the value slot at the key's position: the keys vector and
\* every index entry are untouched.
C5_InsertPresent ==
    (last.op = "insert" /\ Present(Pre, last.args[1])) =>
        LET slot == index_to_lookup_key(Map.values_prefix, PositionOf(Pre, last.args[1]))
        IN  /\ last.err = OK
            /\ last.ret = get(Pre, last.args[1]).ret
            /\ get(Now, last.args[1]).ret = Some(last.args[2])
            /\ keys_len = Pre.keys_len /\ values_len = Pre.values_len
            /\ len(Now) = len(Pre)
            /\ DOMAIN storage = DOMAIN Pre.storage
            /\ \A sk \in DOMAIN storage : sk # slot => storage[sk] = Pre.storage[sk]
            /\ storage[slot] = serialize_value(last.args[2])

\* the value of the key at position 1 of three was overwritten by another one
C5_Witness ==
    /\ last.op = "insert" /\ Present(Pre, last.args[1])
    /\ Pre.keys_len = 3
    /\ PositionOf(Pre, last.args[1]) = 1
    /\ last.ret = Some(1) /\ last.args[2] = 300
    /\ storage # Pre.storage

\* C6: removing the key at position p of a map of length n, p < n-1, moves the
\* entry formerly at position n-1, key and value, to position p and moves no
\* other entry; so insert A, B, C then remove A iterates C, B.
C6_SwapRemoveOrder ==
    (/\ last.op = "remove"
     /\ Present(Pre, last.args[1])
     /\ PositionOf(Pre, last.args[1]) < Pre.keys_len - 1) =>
        LET p == PositionOf(Pre, last.args[1])
            n == Pre.keys_len
            before == to_vec(Pre).ret
        IN  /\ last.err = OK
            /\ to_vec(Now) =
                 [ret |-> [q \in 1..(n - 1) |-> IF q = p + 1 THEN before[n] ELSE before[q]],
                  err |-> OK]

\* the map iterated 0, 1, 256 (the order of insertion), 0 was removed, and it
\* now iterates 256, 1
C6_Witness ==
    /\ last.op = "remove" /\ last.args = <<0>>
    /\ to_vec(Pre).ret = << <<0, 1>>, <<1, 300>>, <<256, 1>> >>
    /\ to_vec(Now).ret = << <<256, 1>>, <<1, 300>> >>

\* C7: removing the only entry of a map of one yields len() = 0 and leaves no
\* index entry for the removed key in the store.
C7_RemoveOnly ==
    (/\ last.op = "remove"
     /\ Present(Pre, last.args[1])
     /\ len(Pre).ret = 1) =>
        /\ last.err = OK
        /\ len(Now) = [ret |-> 0, err |-> OK]
        /\ raw_key_to_index_lookup(serialize_key(last.args[1])) \notin DOMAIN storage
        /\ IndexEntries(storage) = {}

\* key 256, the only key of the map, was removed and its value returned
C7_Witness ==
    /\ last.op = "remove" /\ last.args = <<256>>
    /\ Pre.keys_len = 1 /\ Pre.values_len = 1
    /\ last.ret = Some(300)
    /\ keys_len = 0
    /\ raw_key_to_index_lookup(serialize_key(256)) \in DOMAIN Pre.storage

\* C8: after clear, len() = 0, get is None for every key and no index entry
\* remains; clear on an empty map changes nothing in the store.
C8_Clear ==
    last.op = "clear" =>
        /\ last.err = OK
        /\ len(Now) = [ret |-> 0, err |-> OK]
        /\ \A k \in KeySet :
            /\ get(Now, k) = [ret |-> None, err |-> OK]
            /\ raw_key_to_index_lookup(serialize_key(k)) \notin DOMAIN storage
        /\ len(Pre).ret = 0 => storage = Pre.storage

\* a map of three keys was cleared
C8_Witness ==
    /\ last.op = "clear"
    /\ Pre.keys_len = 3
    /\ Cardinality(IndexEntries(Pre.storage)) = 3
    /\ keys_len = 0

\* a clear of an empty map has completed
C8_WitnessEmpty ==
    /\ last.op = "clear"
    /\ Pre.keys_len = 0
    /\ storage = Pre.storage

\* C9: after any sequence of insert, remove, clear and extend, iter()/to_vec()
\* yields exactly the entries of the reference map: each present key once,
\* with the value get returns for it, len() pairs in all, and keys() and
\* values() are its first and second projections in the same order.
C9_IterMatchesReference ==
    LET tv == to_vec(Now)
        n == Len(tv.ret)
    IN  /\ tv.err = OK
        /\ {tv.ret[p] : p \in 1..n} = {<<k, shadow[k]>> : k \in DOMAIN shadow}
        /\ n = Cardinality(DOMAIN shadow)
        /\ len(Now) = [ret |-> n, err |-> OK]
        /\ \A p \in 1..n : get(Now, tv.ret[p][1]) = [ret |-> Some(tv.ret[p][2]), err |-> OK]
        /\ \A k \in KeySet \ DOMAIN shadow : get(Now, k) = [ret |-> None, err |-> OK]
        /\ keys(Now) = [ret |-> [p \in 1..n |-> tv.ret[p][1]], err |-> OK]
        /\ values(Now) = [ret |-> [p \in 1..n |-> tv.ret[p][2]], err |-> OK]
        /\ last.op = "to_vec" => tv = [ret |-> last.ret, err |-> last.err]

\* to_vec was called on a map out of insertion order and returned its two pairs
C9_Witness ==
    /\ last.op = "to_vec"
    /\ last.ret = << <<256, 300>>, <<1, 1>> >>
    /\ DOMAIN shadow = {1, 256}

\* the value the last pair with this key carries
LastValueFor(pairs, key) ==
    pairs[CHOOSE i \in 1..Len(pairs) :
            /\ pairs[i][1] = key
            /\ \A j \in (i + 1)..Len(pairs) : pairs[j][1] # key][2]

PairKeys(pairs) == {pairs[i][1] : i \in 1..Len(pairs)}

\* C10: extend(pairs) has the effect of insert on each pair in order: get of a
\* key among the pairs is the value of the last pair with that key, every
\* other key is as before, and the length grows by the number of distinct keys
\* that were not in the map.
C10_Extend ==
    last.op = "extend" =>
        /\ last.err = OK
        /\ \A k \in KeySet :
            get(Now, k) =
                IF k \in PairKeys(last.args)
                THEN [ret |-> Some(LastValueFor(last.args, k)), err |-> OK]
                ELSE get(Pre, k)
        /\ len(Now) =
             [ret |-> len(Pre).ret
                        + Cardinality({k \in PairKeys(last.args) : ~Present(Pre, k)}),
              err |-> OK]

\* extend([(256, 1), (256, 300)]) on a map of one key that did not hold key 256
C10_Witness ==
    /\ last.op = "extend"
    /\ last.args = << <<256, 1>>, <<256, 300>> >>
    /\ ~Present(Pre, 256)
    /\ Pre.keys_len = 1
    /\ get(Now, 256).ret = Some(300)
    /\ keys_len = 2

-----------------------------------------------------------------------------
\* C11: from an empty map, with no writes to the store but the map's own, no
\* get, insert, remove, clear or extend ever panics.
C11_NoFault ==
    last.op \in {"get", "insert", "remove", "clear", "extend"} => last.err = OK

\* a get of the key a remove has moved from the last position to position 0
C11_Witness ==
    /\ last.op = "get" /\ last.err = OK /\ last.ret # None
    /\ keys_len = 2
    /\ PositionOf(Now, last.args[1]) = 0
    /\ to_vec(Now).ret[1][1] = 256
    /\ DOMAIN shadow = {1, 256}

\* the store keys under a prefix
SlotsUnder(st, prefix) ==
    {sk \in DOMAIN st : Len(sk) >= Len(prefix) /\ SubSeq(sk, 1, Len(prefix)) = prefix}

\* the key has an index entry
HasIndexEntry(s, key) == get_index_raw(s, serialize_key(key)).ret # None

\* the key's index entry holds a position at which there is no value slot
Dangling(s, key) ==
    /\ HasIndexEntry(s, key)
    /\ LET p == get_index_raw(s, serialize_key(key)).ret[1]
       IN  \/ p >= s.values_len
           \/ index_to_lookup_key(Map.values_prefix, p) \notin DOMAIN s.storage

\* the call last holds is one that meets the fault of the map it ran on
Detects ==
    \/ last.op = "len" /\ Pre.keys_len # Pre.values_len
    \/ /\ last.op = "insert" /\ Pre.keys_len # Pre.values_len
       /\ ~HasIndexEntry(Pre, last.args[1])
    \/ /\ last.op = "remove" /\ Pre.keys_len # Pre.values_len
       /\ HasIndexEntry(Pre, last.args[1])
    \/ last.op = "get" /\ Dangling(Pre, last.args[1])

\* C12: on a map whose two vectors differ in length, len, insert of a key
\* that has no index entry and remove of a key that has one panic with
\* ERR_INCONSISTENT_STATE; on a map with an index entry whose position has no
\* value slot, get of that key does.  The call returns nothing, has written
\* nothing when it panics, and leaves the map as it found it.
C12_FaultDetected ==
    Detects =>
        /\ last.err = ERR_INCONSISTENT_STATE
        /\ last.op # "len" => last.ret = None
        /\ \A i \in 1..Len(last.steps) :
             last.steps[i].call \in {"storage_read", "keys.get_raw"}
        /\ Now = Pre

\* a remove of a stored key met a values vector one shorter than the keys vector
C12_Witness ==
    /\ phase = "observed"
    /\ last.op = "remove" /\ last.err = ERR_INCONSISTENT_STATE
    /\ HasIndexEntry(Pre, last.args[1])
    /\ keys_len = 2 /\ values_len = 1

\* a get met an index entry whose value slot is gone
C12_WitnessDangling ==
    /\ phase = "observed"
    /\ last.op = "get" /\ last.err = ERR_INCONSISTENT_STATE
    /\ keys_len = values_len /\ keys_len = 2
    /\ Dangling(Pre, last.args[1])

\* a get, insert or remove was called with a key or value that does not encode
EncodeFailure ==
    /\ last.op \in {"get", "insert", "remove"}
    /\ \E i \in 1..Len(last.args) : ~try_to_vec_ok(last.args[i])

\* C13 as stated: a call of get, insert or remove with a key or a value that
\* fails to encode does not abort the invocation.
C13_EncodeFailureReturns == EncodeFailure => last.err = OK

\* C13, amended: a call of get, insert or remove with a key or a value that
\* fails to encode panics with ERR_KEY_SERIALIZATION (the key is encoded
\* first) or ERR_VALUE_SERIALIZATION, before any access to the store, and
\* returns nothing; the map is left as it was.
C13_EncodeFailureAborts ==
    EncodeFailure =>
        /\ last.err = IF ~try_to_vec_ok(last.args[1]) THEN ERR_KEY_SERIALIZATION
                      ELSE ERR_VALUE_SERIALIZATION
        /\ last.ret = None
        /\ last.steps = <<>>
        /\ Now = Pre

\* an insert of an encodable key with an unencodable value into a map of two
C13_Witness ==
    /\ last.op = "insert" /\ last.args = <<256, Unencodable>>
    /\ last.err = ERR_VALUE_SERIALIZATION
    /\ keys_len = 2

\* C14: an invocation that aborts inside insert or remove, after any number
\* of the operation's steps, leaves the store and the map as they were
\* before it; one that completes leaves them as all of its steps made them.
C14_AllOrNothing ==
    last.op \in {"insert", "remove"} =>
        /\ last.err # OK => Now = Pre
        /\ last.err = OK => Now = ApplySteps(Pre, last.steps)

\* a remove was aborted after it had rewritten the index and before the
\* swap-removes
C14_Witness ==
    /\ last.op = "remove" /\ last.err = ERR_ABORTED
    /\ Len(last.steps) = 4
    /\ last.steps[4].call = "storage_write"
    /\ ApplySteps(Pre, last.steps) # Pre
    /\ Now = Pre

\* an insert was aborted after the index write and the push of the key
C14_WitnessInsert ==
    /\ last.op = "insert" /\ last.err = ERR_ABORTED
    /\ Len(last.steps) = 3
    /\ last.steps[3].call = "keys.push_raw"
    /\ ApplySteps(Pre, last.steps).keys_len = Pre.keys_len + 1
    /\ Now = Pre

\* the entries of the other map with this identifier are as they were
Untouched(id) ==
    \A sk \in DOMAIN OtherEntries(id) :
        sk \in DOMAIN storage /\ storage[sk] = OtherEntries(id)[sk]

\* C15: whatever this map is asked to do, the index entry, key slot and
\* value slot of every map created with another identifier over the same
\* store stay as they were.
C15_OthersUntouched == \A id \in OtherIds : Untouched(id)

\* the entries of the other map whose identifier this map's identifier is
\* not a prefix of do stay as they were
C15_UnrelatedUntouched == Untouched(<<98>>)

\* C16: insert of an absent key into a map of length n writes the index entry
\* n for the key, puts the key and the value at position n of the two
\* vectors, returns None, makes the length n + 1, and leaves every existing
\* entry where it was, with its value.
C16_InsertAbsent ==
    (last.op = "insert" /\ ~Present(Pre, last.args[1])) =>
        LET n == len(Pre).ret
            key_raw == serialize_key(last.args[1])
            index_lookup == raw_key_to_index_lookup(key_raw)
            key_slot == index_to_lookup_key(Map.keys_prefix, n)
            value_slot == index_to_lookup_key(Map.values_prefix, n)
        IN  /\ last.err = OK /\ last.ret = None
            /\ len(Now) = [ret |-> n + 1, err |-> OK]
            /\ DOMAIN storage = DOMAIN Pre.storage \cup {index_lookup, key_slot, value_slot}
            /\ {index_lookup, key_slot, value_slot} \cap DOMAIN Pre.storage = {}
            /\ storage[index_lookup] = serialize_index(n)
            /\ storage[key_slot] = key_raw
            /\ storage[value_slot] = serialize_value(last.args[2])
            /\ \A sk \in DOMAIN Pre.storage : storage[sk] = Pre.storage[sk]
            /\ \A k \in KeySet \ {last.args[1]} :
                Present(Pre, k) =>
                    /\ PositionOf(Now, k) = PositionOf(Pre, k)
                    /\ get(Now, k) = get(Pre, k)

\* key 1 was inserted with value 300 into a map of two keys out of insertion order
C16_Witness ==
    /\ last.op = "insert" /\ last.args = <<1, 300>>
    /\ ~Present(Pre, 1)
    /\ to_vec(Pre).ret = << <<256, 1>>, <<0, 1>> >>
    /\ to_vec(Now).ret = << <<256, 1>>, <<0, 1>>, <<1, 300>> >>
    /\ get_index_raw(Now, serialize_key(1)).ret = Some(2)

\* C17: within one remove of a present key from a map of more than one key
\* the steps are, in this order: the read of the last key, the deletion of
\* the removed key's index entry, the rewrite of the moved key's index entry
\* (only when the last key is not the removed one), the swap-remove on the
\* keys vector, the swap-remove on the values vector.  The rewritten entry
\* holds the position the swap-remove moves the last key to.
C17_RemoveStepOrder ==
    (last.op = "remove" /\ Present(Pre, last.args[1]) /\ Pre.keys_len > 1) =>
        LET key_raw == serialize_key(last.args[1])
            index_lookup == raw_key_to_index_lookup(key_raw)
            p == PositionOf(Pre, last.args[1])
            last_key_raw == KeyAt(Pre, Pre.keys_len - 1)[1]
        IN  /\ last.steps
                 = << StoreStep("storage_read", index_lookup),
                      VecStep("keys.get_raw", Pre.keys_len - 1),
                      StoreStep("storage_remove", index_lookup) >>
                   \o (IF last_key_raw # key_raw
                       THEN << WriteStep(raw_key_to_index_lookup(last_key_raw),
                                         serialize_index(p)) >>
                       ELSE <<>>)
                   \o << VecStep("keys.swap_remove_raw", p),
                         VecStep("values.swap_remove_raw", p) >>
            /\ ApplySteps(Pre, last.steps) = Now
            /\ last_key_raw # key_raw =>
                 /\ KeyAt(Now, p) = Some(last_key_raw)
                 /\ get_index_raw(Now, last_key_raw).ret = Some(p)

\* a remove from position 0 of three keys, which moves the last key
C17_Witness ==
    /\ last.op = "remove" /\ last.err = OK
    /\ Pre.keys_len = 3
    /\ PositionOf(Pre, last.args[1]) = 0
    /\ Len(last.steps) = 6
    /\ last.steps[4].call = "storage_write"

\* C18: a remove of the key at the last position of a map of n > 1 keys
\* writes no index entry and changes nothing in the store but the removed
\* key's index entry and the last slot of each vector; an insert of that key
\* afterwards puts it at position n - 1 again, get then returns the new
\* value, and the other keys keep their positions and values.
C18_RemoveLast ==
    (/\ last.op = "remove" /\ Present(Pre, last.args[1])
     /\ Pre.keys_len > 1
     /\ PositionOf(Pre, last.args[1]) = Pre.keys_len - 1) =>
        LET key == last.args[1]
            n == Pre.keys_len
            gone == {raw_key_to_index_lookup(serialize_key(key)),
                     index_to_lookup_key(Map.keys_prefix, n - 1),
                     index_to_lookup_key(Map.values_prefix, n - 1)}
            others == {k \in KeySet \ {key} : Present(Pre, k)}
        IN  /\ \A i \in 1..Len(last.steps) : last.steps[i].call # "storage_write"
            /\ DOMAIN storage = DOMAIN Pre.storage \ gone
            /\ \A sk \in DOMAIN storage : storage[sk] = Pre.storage[sk]
            /\ \A value \in ValueSet :
                LET r == insert(Now, key, value)
                    after == MapState(r.storage, r.keys_len, r.values_len)
                IN  /\ r.err = OK /\ r.ret = None
                    /\ PositionOf(after, key) = n - 1
                    /\ get(after, key).ret = Some(value)
                    /\ \A k \in others :
                        /\ PositionOf(after, k) = PositionOf(Pre, k)
                        /\ get(after, k) = get(Pre, k)

\* the key at position 2 of three was removed
C18_Witness ==
    /\ last.op = "remove" /\ last.err = OK
    /\ Pre.keys_len = 3 /\ keys_len = 2
    /\ PositionOf(Pre, last.args[1]) = 2
    /\ Len(last.steps) = 5

\* C19: after every completed map operation each of the two vectors occupies
\* exactly the store slots of positions 0..len-1 under its prefix: none is
\* missing below len and none is left at or above it.
C19_VectorsDense ==
    Completed =>
        /\ SlotsUnder(storage, Map.keys_prefix)
             = {index_to_lookup_key(Map.keys_prefix, p) : p \in 0..(keys_len - 1)}
        /\ SlotsUnder(storage, Map.values_prefix)
             = {index_to_lookup_key(Map.values_prefix, p) : p \in 0..(values_len - 1)}

\* a remove from position 0 of three left exactly the slots 0 and 1
C19_Witness ==
    /\ last.op = "remove" /\ last.err = OK
    /\ Pre.keys_len = 3 /\ keys_len = 2
    /\ PositionOf(Pre, last.args[1]) = 0
    /\ index_to_lookup_key(Map.values_prefix, 2) \in DOMAIN Pre.storage
    /\ Cardinality(SlotsUnder(storage, Map.values_prefix)) = 2

\* C20: after any sequence of insert, remove, clear and extend the raw keys
\* that have an index entry are exactly those in the keys vector, so there
\* are len() index entries.
C20_NoStaleIndex ==
    /\ SlotsUnder(storage, Map.key_index_prefix)
         = {raw_key_to_index_lookup(KeyAt(Now, p)[1]) : p \in 0..(keys_len - 1)}
    /\ len(Now) = [ret |-> Cardinality(SlotsUnder(storage, Map.key_index_prefix)), err |-> OK]

\* a map of three keys was cleared and holds one key again
C20_Witness ==
    /\ last.op = "insert" /\ last.ret = None
    /\ Pre.keys_len = 0 /\ keys_len = 1
    /\ DOMAIN shadow = {256}
    /\ SlotsUnder(storage, Map.key_index_prefix)
         = {raw_key_to_index_lookup(serialize_key(256))}

=============================================================================
